---- MODULE Spec2Model ----
(***************************************************************************)
(* Model of sales_analysis.py: the SalesAnalysis pipeline run by main().   *)
(*                                                                         *)
(* The run is a sequence of method calls on one SalesAnalysis object.      *)
(* Each method is one action.  An exception that no handler catches ends   *)
(* the process: pc becomes "crashed" and raised names the exception.       *)
(*                                                                         *)
(* Numbers.  Unit and Sales are float64 columns.  A float is modelled as   *)
(* the exact value m * 2^e with an arbitrary-precision natural m, and the  *)
(* arithmetic of MinMaxScaler and of Series.mean rounds every result to    *)
(* the 53-bit significand of IEEE-754 binary64 (round half to even).  The  *)
(* data are non-negative, so floats carry no sign.  Group sums and group   *)
(* means (groupby(...).sum(), .mean()) are kept as the exact sum of their  *)
(* addends: the rounding of those additions is not modelled.               *)
(*                                                                         *)
(* Categories.  State, Group and Time values are integer codes 1, 2, ...   *)
(* whose order is the sort order of the labels; 0 is a missing cell.       *)
(*                                                                         *)
(* pandas.  df[col].fillna(v, inplace=True) writes through to df, as it    *)
(* does without copy-on-write; nlargest and nsmallest keep the first of    *)
(* equal values (keep='first'); groupby sorts its keys and drops missing   *)
(* keys; sum and mean skip missing cells.                                  *)
(***************************************************************************)
EXTENDS Integers, Sequences, FiniteSets, TLC

(***************************************************************************)
(* Arbitrary-precision naturals: little-endian sequences of limbs below    *)
(* Base, without leading zero limbs (<<>> is 0).                           *)
(***************************************************************************)
Base == 2^15

RECURSIVE Pow2(_)
Pow2(k) == IF k = 0 THEN 1 ELSE 2 * Pow2(k - 1)

RECURSIVE NatBitLen(_)
NatBitLen(n) == IF n = 0 THEN 0 ELSE 1 + NatBitLen(n \div 2)

LimbBits == NatBitLen(Base) - 1

RECURSIVE BNorm(_)
BNorm(a) ==
  IF a = <<>> THEN <<>>
  ELSE IF a[Len(a)] = 0 THEN BNorm(SubSeq(a, 1, Len(a) - 1))
  ELSE a

RECURSIVE BFromNat(_)
BFromNat(n) == IF n = 0 THEN <<>> ELSE <<n % Base>> \o BFromNat(n \div Base)

RECURSIVE BAddC(_, _, _)
BAddC(a, b, c) ==
  IF a = <<>> /\ b = <<>> THEN (IF c = 0 THEN <<>> ELSE <<c>>)
  ELSE LET x == IF a = <<>> THEN 0 ELSE Head(a)
           y == IF b = <<>> THEN 0 ELSE Head(b)
           s == x + y + c
       IN <<s % Base>> \o BAddC(IF a = <<>> THEN <<>> ELSE Tail(a),
                                IF b = <<>> THEN <<>> ELSE Tail(b),
                                s \div Base)

BAdd(a, b) == BAddC(a, b, 0)

\* a - b - c for a >= b + c
RECURSIVE BSubC(_, _, _)
BSubC(a, b, c) ==
  IF a = <<>> THEN <<>>
  ELSE LET y == IF b = <<>> THEN 0 ELSE Head(b)
           d == Head(a) - y - c
       IN <<(d + Base) % Base>> \o BSubC(Tail(a),
                                        IF b = <<>> THEN <<>> ELSE Tail(b),
                                        IF d < 0 THEN 1 ELSE 0)

BSub(a, b) == BNorm(BSubC(a, b, 0))

\* -1, 0, 1 as a < b, a = b, a > b
RECURSIVE BCmpTop(_, _, _)
BCmpTop(a, b, i) ==
  IF i = 0 THEN 0
  ELSE IF a[i] < b[i] THEN -1
  ELSE IF a[i] > b[i] THEN 1
  ELSE BCmpTop(a, b, i - 1)

BCmp(a, b) ==
  IF Len(a) < Len(b) THEN -1
  ELSE IF Len(a) > Len(b) THEN 1
  ELSE BCmpTop(a, b, Len(a))

\* a * k + c for 0 <= k < Base
RECURSIVE BMulSmallC(_, _, _)
BMulSmallC(a, k, c) ==
  IF a = <<>> THEN (IF c = 0 THEN <<>> ELSE <<c>>)
  ELSE LET p == Head(a) * k + c
       IN <<p % Base>> \o BMulSmallC(Tail(a), k, p \div Base)

BMulSmall(a, k) == BNorm(BMulSmallC(a, k, 0))

RECURSIVE BMul(_, _)
BMul(a, b) ==
  IF a = <<>> \/ b = <<>> THEN <<>>
  ELSE LET rest == BMul(a, Tail(b))
       IN BAdd(BMulSmall(a, Head(b)), IF rest = <<>> THEN <<>> ELSE <<0>> \o rest)

\* floor(a / d) and a mod d for 1 <= d <= Base, from the top limb down
RECURSIVE BDivSmallR(_, _, _)
BDivSmallR(a, d, r) ==
  IF a = <<>> THEN [q |-> <<>>, r |-> r]
  ELSE LET cur == r * Base + a[Len(a)]
           low == BDivSmallR(SubSeq(a, 1, Len(a) - 1), d, cur % d)
       IN [q |-> low.q \o <<cur \div d>>, r |-> low.r]

BDivSmall(a, d) ==
  LET x == BDivSmallR(a, d, 0) IN [q |-> BNorm(x.q), r |-> x.r]

RECURSIVE Zeros(_)
Zeros(n) == IF n = 0 THEN <<>> ELSE <<0>> \o Zeros(n - 1)

\* a * 2^k
BShl(a, k) ==
  IF a = <<>> THEN <<>>
  ELSE Zeros(k \div LimbBits) \o BMulSmall(a, Pow2(k % LimbBits))

\* floor(a / 2^k)
BShr(a, k) ==
  LET drop == k \div LimbBits IN
  IF drop >= Len(a) THEN <<>>
  ELSE BDivSmall(SubSeq(a, drop + 1, Len(a)), Pow2(k % LimbBits)).q

BBitLen(a) ==
  IF a = <<>> THEN 0 ELSE LimbBits * (Len(a) - 1) + NatBitLen(a[Len(a)])

BOdd(a) == a # <<>> /\ a[1] % 2 = 1

(***************************************************************************)
(* float64 values.  [nan, m, e] is m * 2^e; the canonical form has m odd,  *)
(* or m = 0 and e = 0, so that equal values are equal records.             *)
(***************************************************************************)
Prec == 53

NaN == [nan |-> TRUE, m |-> <<>>, e |-> 0]

RECURSIVE NatTrailingZeros(_)
NatTrailingZeros(n) == IF n % 2 = 1 THEN 0 ELSE 1 + NatTrailingZeros(n \div 2)

RECURSIVE Canon(_, _)
Canon(m, e) ==
  IF m = <<>> THEN [nan |-> FALSE, m |-> <<>>, e |-> 0]
  ELSE IF m[1] = 0 THEN Canon(Tail(m), e + LimbBits)
  ELSE LET tz == NatTrailingZeros(m[1])
       IN [nan |-> FALSE, m |-> BShr(m, tz), e |-> e + tz]

\* The float nearest to n * 2^e, ties to the even significand.
RoundBig(n, e) ==
  LET len == BBitLen(n) IN
  IF len <= Prec THEN Canon(n, e)
  ELSE LET sh   == len - Prec
           q    == BShr(n, sh)
           rem  == BSub(n, BShl(q, sh))
           half == BShl(<<1>>, sh - 1)
           c    == BCmp(rem, half)
           up   == c > 0 \/ (c = 0 /\ BOdd(q))
       IN Canon(IF up THEN BAdd(q, <<1>>) ELSE q, e + sh)

FromInt(k) == Canon(BFromNat(k), 0)

FZero == FromInt(0)

FOne == FromInt(1)

\* the significands of x and y over their common exponent
Aligned(x, y) ==
  LET e0 == IF x.e < y.e THEN x.e ELSE y.e
  IN [x |-> BShl(x.m, x.e - e0), y |-> BShl(y.m, y.e - e0), e |-> e0]

\* -1, 0, 1; defined for non-NaN operands
FCmp(x, y) == LET a == Aligned(x, y) IN BCmp(a.x, a.y)

FLess(x, y) == ~x.nan /\ ~y.nan /\ FCmp(x, y) < 0

FLeq(x, y) == ~x.nan /\ ~y.nan /\ FCmp(x, y) <= 0

FAdd(x, y) ==
  IF x.nan \/ y.nan THEN NaN
  ELSE LET a == Aligned(x, y) IN RoundBig(BAdd(a.x, a.y), a.e)

\* x - y for x >= y
FSub(x, y) ==
  IF x.nan \/ y.nan THEN NaN
  ELSE LET a == Aligned(x, y) IN RoundBig(BSub(a.x, a.y), a.e)

FMul(x, y) ==
  IF x.nan \/ y.nan THEN NaN
  ELSE RoundBig(BMul(x.m, y.m), x.e + y.e)

\* x / y for y # 0 whose odd significand fits one limb.  The quotient is
\* taken to Prec + 2 bits and the low bit records a non-zero remainder, so
\* that RoundBig rounds the exact quotient.
FDiv(x, y) ==
  IF x.nan \/ y.nan THEN NaN
  ELSE IF x.m = <<>> THEN FZero
  ELSE LET d  == y.m[1]
           k  == Prec + 2 + LimbBits
           qr == BDivSmall(BShl(x.m, k), d)
           n  == BAdd(BMulSmall(qr.q, 2), IF qr.r = 0 THEN <<>> ELSE <<1>>)
       IN RoundBig(n, x.e - y.e - k - 1)

\* exact sum (no rounding), for the aggregates
DAdd(x, y) ==
  IF x.nan \/ y.nan THEN NaN
  ELSE LET a == Aligned(x, y) IN Canon(BAdd(a.x, a.y), a.e)

(***************************************************************************)
(* The table (pandas DataFrame).  A table is [cols, rows]: the set of its  *)
(* column names and the sequence of its rows, each row a function on cols. *)
(***************************************************************************)
None == <<>>

Some(x) == <<x>>

\* the columns of the dataset, in the order of the file's header
ColOrder == <<"Time", "State", "Group", "Unit", "Sales">>

AllCols == {ColOrder[i] : i \in DOMAIN ColOrder}

\* numeric_columns of clean_data
NumericColumns == {"Unit", "Sales"}

IsNull(c, v) == IF c \in NumericColumns THEN v.nan ELSE v = 0

\* df[c].isnull().sum()
NullCount(t, c) == Cardinality({i \in DOMAIN t.rows : IsNull(c, t.rows[i][c])})

\* the indices of s in increasing order
RECURSIVE SortedSeq(_)
SortedSeq(s) ==
  IF s = {} THEN <<>>
  ELSE LET lo == CHOOSE x \in s : \A y \in s : x <= y
       IN <<lo>> \o SortedSeq(s \ {lo})

RowIndices(t) == SortedSeq(DOMAIN t.rows)

VARIABLES
  pc,          \* where main() is
  fileState,   \* the CSV at data_path: "absent", "unparseable" or "ok"
  fileTable,   \* what read_csv makes of it
  df,          \* self.df
  state_wise,  \* self.state_wise
  group_wise,  \* self.group_wise
  time_wise,   \* self.time_wise
  figures,     \* the chart files written into figures_path by this run
  report,      \* reports/sales_report.md as written by this run
  stdout,      \* the messages printed, in order
  printed,     \* the tables printed by check_missing_values and perform_analysis
  calls,       \* the methods main() has called, in order
  raised       \* the exception that ended the run

vars == <<pc, fileState, fileTable, df, state_wise, group_wise, time_wise,
          figures, report, stdout, printed, calls, raised>>

(***************************************************************************)
(* clean_data: imputation (lines 80-88) and min-max scaling (lines 90-93). *)
(***************************************************************************)
Present(t, c) == {i \in DOMAIN t.rows : ~IsNull(c, t.rows[i][c])}

\* the float sum of column c over the rows idx, left to right
RECURSIVE FSum(_, _, _)
FSum(t, c, idx) ==
  IF idx = <<>> THEN FZero
  ELSE FAdd(FSum(t, c, SubSeq(idx, 1, Len(idx) - 1)), t.rows[idx[Len(idx)]][c])

\* df[c].mean(): missing cells are skipped; NaN when every cell is missing
Mean(t, c) ==
  LET idx == SortedSeq(Present(t, c))
  IN IF idx = <<>> THEN NaN ELSE FDiv(FSum(t, c, idx), FromInt(Len(idx)))

\* df[c].mode(): the most frequent present values in sorted order; empty
\* when every cell is missing
Mode(t, c) ==
  LET vals     == {t.rows[i][c] : i \in Present(t, c)}
      count(v) == Cardinality({i \in DOMAIN t.rows : t.rows[i][c] = v})
  IN SortedSeq({v \in vals : \A w \in vals : count(w) <= count(v)})

\* df[c].fillna(v, inplace=True)
FillNa(t, c, v) ==
  [t EXCEPT !.rows = [i \in DOMAIN t.rows |->
      IF IsNull(c, t.rows[i][c]) THEN [t.rows[i] EXCEPT ![c] = v] ELSE t.rows[i]]]

\* the loop of lines 81-88 from column ColOrder[k] on: the table it leaves
\* and the exception it raises, if any (mode()[0] of an empty mode)
RECURSIVE Impute(_, _)
Impute(t, k) ==
  IF k > Len(ColOrder) THEN [t |-> t, err |-> None]
  ELSE LET c == ColOrder[k] IN
       IF c \notin t.cols \/ NullCount(t, c) = 0 THEN Impute(t, k + 1)
       ELSE IF c \in NumericColumns THEN Impute(FillNa(t, c, Mean(t, c)), k + 1)
       ELSE IF Mode(t, c) = <<>> THEN [t |-> t, err |-> Some("KeyError")]
       ELSE Impute(FillNa(t, c, Mode(t, c)[1]), k + 1)

\* np.nanmin / np.nanmax of a column: NaN when every cell is missing
NanMin(t, c) ==
  IF Present(t, c) = {} THEN NaN
  ELSE t.rows[CHOOSE i \in Present(t, c) :
                \A j \in Present(t, c) : FLeq(t.rows[i][c], t.rows[j][c])][c]

NanMax(t, c) ==
  IF Present(t, c) = {} THEN NaN
  ELSE t.rows[CHOOSE i \in Present(t, c) :
                \A j \in Present(t, c) : FLeq(t.rows[j][c], t.rows[i][c])][c]

\* 10 * np.finfo(np.float64).eps
TenEps == Canon(BFromNat(10), 1 - Prec)

\* sklearn _handle_zeros_in_scale: a range below 10 eps counts as 1.0
HandleZerosInScale(r) == IF FLess(r, TenEps) THEN FOne ELSE r

\* MinMaxScaler on one column, feature_range (0, 1):
\*   scale_ = 1.0 / data_range, min_ = 0 - data_min * scale_,
\*   X = X * scale_ + min_
\* each operation rounded to float64; NaN cells stay NaN.  shift is -min_.
ScaledCell(x, scale, shift) == FSub(FMul(x, scale), shift)

ScaleColumn(t, c) ==
  LET data_min   == NanMin(t, c)
      data_range == FSub(NanMax(t, c), data_min)
      scale      == FDiv(FOne, HandleZerosInScale(data_range))
      shift      == FMul(data_min, scale)
  IN [t EXCEPT !.rows = [i \in DOMAIN t.rows |->
        [t.rows[i] EXCEPT ![c] = ScaledCell(t.rows[i][c], scale, shift)]]]

\* scaler.fit_transform(df[numeric_columns]) written back into df
Scale(t) == ScaleColumn(ScaleColumn(t, "Unit"), "Sales")

(***************************************************************************)
(* perform_analysis: the grouped views (lines 104, 111, 117) and the       *)
(* top-3 / bottom-3 selections (lines 106, 108, 119, 211, 218).            *)
(***************************************************************************)
\* the group keys of df.groupby(c): the distinct present values, sorted
\* (groupby sorts its keys and drops missing keys)
GroupKeys(t, c) == SortedSeq({t.rows[i][c] : i \in Present(t, c)})

\* the exact sum of the present Sales cells of the rows idx
RECURSIVE SalesSum(_, _)
SalesSum(t, idx) ==
  IF idx = <<>> THEN FZero
  ELSE LET v == t.rows[Head(idx)]["Sales"]
       IN IF v.nan THEN SalesSum(t, Tail(idx)) ELSE DAdd(v, SalesSum(t, Tail(idx)))

\* fault variant of GroupRows: only the first row of a group is summed
GroupRowsFirstOnly(t, c, k) ==
  LET all == SortedSeq({i \in DOMAIN t.rows : t.rows[i][c] = k})
  IN IF all = <<>> THEN <<>> ELSE <<all[1]>>

GroupRows(t, c, k) == SortedSeq({i \in DOMAIN t.rows : t.rows[i][c] = k})

\* df.groupby(c)['Sales'].sum().reset_index()
GroupBySum(t, c) ==
  LET keys == GroupKeys(t, c)
  IN [j \in DOMAIN keys |->
        [key |-> keys[j], Sales |-> SalesSum(t, GroupRows(t, c, keys[j]))]]

\* df.groupby(c)['Sales'].mean().reset_index(): the mean of a group is kept
\* as its exact sum over the number of its present cells (NaN when den = 0)
GroupByMean(t, c) ==
  LET keys == GroupKeys(t, c)
      here(k) == {i \in DOMAIN t.rows : t.rows[i][c] = k /\ ~t.rows[i]["Sales"].nan}
  IN [j \in DOMAIN keys |->
        [key   |-> keys[j],
         Sales |-> [num |-> SalesSum(t, GroupRows(t, c, keys[j])),
                    den |-> Cardinality(here(keys[j]))]]]

RemoveAt(s, i) == SubSeq(s, 1, i - 1) \o SubSeq(s, i + 1, Len(s))

\* fault variant of FirstMax: of equal Sales the last row (keep='last')
LastMax(s) ==
  CHOOSE i \in DOMAIN s :
    /\ \A j \in DOMAIN s : FCmp(s[j].Sales, s[i].Sales) <= 0
    /\ \A j \in (i + 1)..Len(s) : FCmp(s[j].Sales, s[i].Sales) < 0

\* the first position of s that holds a largest / smallest Sales
FirstMax(s) ==
  CHOOSE i \in DOMAIN s :
    /\ \A j \in DOMAIN s : FCmp(s[j].Sales, s[i].Sales) <= 0
    /\ \A j \in 1..(i - 1) : FCmp(s[j].Sales, s[i].Sales) < 0

FirstMin(s) ==
  CHOOSE i \in DOMAIN s :
    /\ \A j \in DOMAIN s : FCmp(s[i].Sales, s[j].Sales) <= 0
    /\ \A j \in 1..(i - 1) : FCmp(s[i].Sales, s[j].Sales) < 0

\* frame.nlargest(n, 'Sales') with keep='first': the largest Sales first,
\* of equal Sales the earlier row first
RECURSIVE nlargest(_, _)
nlargest(s, n) ==
  IF n = 0 \/ s = <<>> THEN <<>>
  ELSE LET i == FirstMax(s) IN <<s[i]>> \o nlargest(RemoveAt(s, i), n - 1)

\* frame.nsmallest(n, 'Sales') with keep='first'
RECURSIVE nsmallest(_, _)
nsmallest(s, n) ==
  IF n = 0 \/ s = <<>> THEN <<>>
  ELSE LET i == FirstMin(s) IN <<s[i]>> \o nsmallest(RemoveAt(s, i), n - 1)

\* the n of nlargest(3, ...) and nsmallest(3, ...)
TopN == 3

Keys(s) == [j \in DOMAIN s |-> s[j].key]

(***************************************************************************)
(* The input files of the model.                                           *)
(***************************************************************************)
MaxRows == 3

CatVals == {0, 1, 2}

NumVals == {NaN, FromInt(1), FromInt(6)}

DefaultRow ==
  [Time |-> 1, State |-> 1, Group |-> 1, Unit |-> FromInt(1), Sales |-> FromInt(1)]

\* the rows that differ from DefaultRow in columns a and b
Vary(a, A, b, B) == {[DefaultRow EXCEPT ![a] = x, ![b] = y] : x \in A, y \in B}

Restrict(t, cols) ==
  [cols |-> cols,
   rows |-> [i \in DOMAIN t.rows |-> [c \in cols |-> t.rows[i][c]]]]

\* t is a file of up to n rows drawn from rowset, with the columns cols
IsTableOf(t, rowset, n, cols) ==
  \E k \in 0..n : \E r \in [1..k -> rowset] :
    t = Restrict([cols |-> AllCols, rows |-> r], cols)

\* the files: every column with two columns varied at a time, and files
\* that lack some of the columns
IsInputTable(t) ==
  \/ \E cols \in (SUBSET AllCols) \ {{}} :
       IsTableOf(t, Vary("State", CatVals, "Sales", NumVals), MaxRows, cols)
  \/ IsTableOf(t, Vary("Group", CatVals, "Sales", NumVals \ {NaN}), MaxRows, AllCols)
  \/ IsTableOf(t, Vary("Time", CatVals, "Sales", NumVals \ {NaN}), MaxRows, AllCols)
  \/ IsTableOf(t, Vary("Unit", NumVals, "Sales", NumVals), MaxRows, AllCols)

EmptyTable == [cols |-> {}, rows |-> <<>>]

(***************************************************************************)
(* The run of main() (lines 265-280).                                      *)
(***************************************************************************)
\* the state after SalesAnalysis() (lines 10-33), before load_data
Init ==
  /\ pc = "load"
  /\ \/ fileState \in {"absent", "unparseable"} /\ fileTable = EmptyTable
     \/ fileState = "ok" /\ IsInputTable(fileTable)
  /\ df = None
  /\ state_wise = None
  /\ group_wise = None
  /\ time_wise = None
  /\ figures = {}
  /\ report = None
  /\ stdout = <<>>
  /\ printed = [top |-> None, bottom |-> None]
  /\ calls = <<>>
  /\ raised = None

\* an exception no handler catches ends the process
Crash(exc) == pc' = "crashed" /\ raised' = Some(exc)

\* fault variant of load_data: no try/except around read_csv, the parser's
\* exception leaves the method
load_data_uncaught ==
  /\ pc = "load"
  /\ calls' = Append(calls, "load_data")
  /\ IF fileState = "absent"
       THEN /\ stdout' = Append(stdout, "Error: CSV file not found")
            /\ pc' = "load_failed"
            /\ df' = df
            /\ raised' = raised
     ELSE IF fileState = "unparseable"
       THEN /\ stdout' = stdout
            /\ df' = df
            /\ Crash("ParserError")
     ELSE /\ stdout' = Append(stdout, "Data loaded successfully!")
          /\ pc' = "check"
          /\ df' = Some(fileTable)
          /\ raised' = raised
  /\ UNCHANGED <<fileState, fileTable, state_wise, group_wise, time_wise,
                 figures, report, printed>>

\* load_data (lines 35-52); main branches on its return value (line 270)
load_data ==
  /\ pc = "load"
  /\ calls' = Append(calls, "load_data")
  /\ IF fileState = "absent"
       THEN /\ stdout' = Append(stdout, "Error: CSV file not found")
            /\ pc' = "load_failed"
            /\ df' = df
     ELSE IF fileState = "unparseable"
       THEN /\ stdout' = Append(stdout, "Error loading data")
            /\ pc' = "load_failed"
            /\ df' = df
     ELSE /\ stdout' = Append(stdout, "Data loaded successfully!")
          /\ pc' = "check"
          /\ df' = Some(fileTable)
  /\ UNCHANGED <<fileState, fileTable, state_wise, group_wise, time_wise,
                 figures, report, printed, raised>>

\* fault variant of check_missing_values: the rows with a missing cell are
\* dropped from the table (dropna(inplace=True))
check_missing_values_dropna ==
  /\ pc = "check"
  /\ calls' = Append(calls, "check_missing_values")
  /\ stdout' = Append(stdout, "Checking for missing values:")
  /\ pc' = "clean"
  /\ LET t    == df[1]
         keep == SortedSeq({i \in DOMAIN t.rows :
                              \A c \in t.cols : ~IsNull(c, t.rows[i][c])})
     IN df' = Some([t EXCEPT !.rows = [j \in DOMAIN keep |-> t.rows[keep[j]]]])
  /\ UNCHANGED <<fileState, fileTable, state_wise, group_wise, time_wise,
                 figures, report, printed, raised>>

\* check_missing_values (lines 54-65): prints the counts, returns a mask
\* that main drops
check_missing_values ==
  /\ pc = "check"
  /\ calls' = Append(calls, "check_missing_values")
  /\ stdout' = Append(stdout, "Checking for missing values:")
  /\ pc' = "clean"
  /\ UNCHANGED <<fileState, fileTable, df, state_wise, group_wise, time_wise,
                 figures, report, printed, raised>>

\* clean_data (lines 67-97)
clean_data ==
  /\ pc = "clean"
  /\ calls' = Append(calls, "clean_data")
  /\ LET start  == Append(stdout, "Starting data cleaning process...")
         filled == Impute(df[1], 1)
     IN IF filled.err # None
          THEN \* line 88: mode()[0] of a column with no present value
               /\ df' = Some(filled.t)
               /\ stdout' = start
               /\ Crash("KeyError")
        ELSE IF ~(NumericColumns \subseteq filled.t.cols)
          THEN \* line 93: df[numeric_columns] without Unit or Sales
               /\ df' = Some(filled.t)
               /\ stdout' = start
               /\ Crash("KeyError")
        ELSE IF filled.t.rows = <<>>
          THEN \* line 93: fit_transform of an array with no sample
               /\ df' = Some(filled.t)
               /\ stdout' = start
               /\ Crash("ValueError")
        ELSE /\ df' = Some(Scale(filled.t))
             /\ stdout' = Append(start, "Data cleaning completed!")
             /\ pc' = "analysis"
             /\ raised' = raised
  /\ UNCHANGED <<fileState, fileTable, state_wise, group_wise, time_wise,
                 figures, report, printed>>

\* perform_analysis (lines 99-126); the statistics it returns are dropped
\* by main
perform_analysis ==
  /\ pc = "analysis"
  /\ calls' = Append(calls, "perform_analysis")
  /\ stdout' = Append(stdout, "Performing data analysis...")
  /\ LET t == df[1] IN
     IF ~({"State", "Sales"} \subseteq t.cols)
       THEN \* line 104
            /\ Crash("KeyError")
            /\ UNCHANGED <<state_wise, group_wise, time_wise, printed>>
     ELSE LET sw == GroupBySum(t, "State") IN
       /\ state_wise' = Some(sw)
       /\ printed' = [top |-> Some(nlargest(sw, TopN)),
                      bottom |-> Some(nsmallest(sw, TopN))]
       /\ IF "Group" \notin t.cols
            THEN \* line 111
                 /\ Crash("KeyError")
                 /\ UNCHANGED <<group_wise, time_wise>>
          ELSE /\ group_wise' = Some(GroupBySum(t, "Group"))
               /\ time_wise' = IF "Time" \in t.cols
                                 THEN Some(GroupByMean(t, "Time"))
                                 ELSE time_wise
               /\ IF "Unit" \notin t.cols
                    THEN \* line 122
                         Crash("KeyError")
                    ELSE pc' = "visualize" /\ raised' = raised
  /\ UNCHANGED <<fileState, fileTable, df, figures, report>>

\* the chart files, in the order create_visualizations writes them
Figures ==
  <<"state_wise_sales.png", "group_sales.png", "sales_distribution.png",
    "time_of_day_sales.png", "unit_sales_relationship.png">>

\* create_visualizations (lines 128-191).  What matplotlib draws is not
\* modelled: a chart is the file savefig writes, and a chart raises only
\* for a column the table lacks.
create_visualizations ==
  /\ pc = "visualize"
  /\ calls' = Append(calls, "create_visualizations")
  /\ stdout' = Append(stdout, "Generating visualizations...")
  /\ LET t  == df[1]
         f1 == IF state_wise # None THEN {Figures[1]} ELSE {}
         f4 == IF "Time" \in t.cols THEN {Figures[4]} ELSE {}
     IN IF ~({"Group", "Sales"} \subseteq t.cols)
          THEN \* line 147
               figures' = figures \cup f1 /\ Crash("KeyError")
        ELSE IF "State" \notin t.cols
          THEN \* line 157
               figures' = figures \cup f1 \cup {Figures[2]} /\ Crash("KeyError")
        ELSE IF "Unit" \notin t.cols
          THEN \* line 183
               /\ figures' = figures \cup f1 \cup {Figures[2], Figures[3]} \cup f4
               /\ Crash("KeyError")
        ELSE /\ figures' = figures \cup f1 \cup {Figures[2], Figures[3]} \cup f4
                             \cup {Figures[5]}
             /\ pc' = "report"
             /\ raised' = raised
  /\ UNCHANGED <<fileState, fileTable, df, state_wise, group_wise, time_wise,
                 report, printed>>

\* the list under "## Visualizations" (lines 253-257)
Listing ==
  <<"1. State-wise Sales Analysis", "2. Sales Distribution by Group",
    "3. Sales Distribution by State", "4. Time of Day Analysis",
    "5. Unit vs Sales Relationship">>

\* df[c].unique(): the distinct cells
Unique(t, c) == {t.rows[i][c] : i \in DOMAIN t.rows}

\* generate_report (lines 193-263).  Of the tables the report holds the
\* State column; the text of the numbers is not modelled.
generate_report ==
  /\ pc = "report"
  /\ calls' = Append(calls, "generate_report")
  /\ LET t == df[1] IN
     IF ~({"State", "Group", "Sales"} \subseteq t.cols)
          \/ state_wise = None \/ group_wise = None
       THEN \* lines 204, 205, 211, 228, 245
            /\ Crash(IF {"State", "Group", "Sales"} \subseteq t.cols
                       THEN "AttributeError" ELSE "KeyError")
            /\ stdout' = Append(stdout, "Generating analysis report...")
            /\ report' = report
     ELSE /\ report' = Some([records |-> Len(t.rows),
                             states  |-> Cardinality(Unique(t, "State")),
                             groups  |-> Cardinality(Unique(t, "Group")),
                             top     |-> Keys(nlargest(state_wise[1], TopN)),
                             bottom  |-> Keys(nsmallest(state_wise[1], TopN)),
                             visualizations |-> Listing])
          /\ stdout' = stdout \o <<"Generating analysis report...",
                                   "Report generated and saved"
                                 >>
          /\ pc' = "finish"
          /\ raised' = raised
  /\ UNCHANGED <<fileState, fileTable, df, state_wise, group_wise, time_wise,
                 figures, printed>>

\* main, lines 276-277
MainSuccess ==
  /\ pc = "finish"
  /\ stdout' = Append(stdout, "Analysis completed successfully!")
  /\ pc' = "done"
  /\ UNCHANGED <<fileState, fileTable, df, state_wise, group_wise, time_wise,
                 figures, report, printed, calls, raised>>

\* main, lines 279-280
MainFailure ==
  /\ pc = "load_failed"
  /\ stdout' = Append(stdout, "Analysis stopped due to data loading error.")
  /\ pc' = "done"
  /\ UNCHANGED <<fileState, fileTable, df, state_wise, group_wise, time_wise,
                 figures, report, printed, calls, raised>>

Next ==
  \/ load_data
  \/ check_missing_values
  \/ clean_data
  \/ perform_analysis
  \/ create_visualizations
  \/ generate_report
  \/ MainSuccess
  \/ MainFailure

Spec == Init /\ [][Next]_vars

(***************************************************************************)
(* Properties.                                                             *)
(***************************************************************************)
Stages ==
  <<"load_data", "check_missing_values", "clean_data", "perform_analysis",
    "create_visualizations", "generate_report">>

\* method m was called and returned (the last call of a crashed run did not)
Returned(m) ==
  \E i \in DOMAIN calls :
    calls[i] = m /\ (i < Len(calls) \/ pc # "crashed")

RunEnded == pc \in {"done", "crashed"}

\* the table as clean_data has it between imputation and scaling
Imputed == Impute(fileTable, 1).t

\* C1: after clean_data returns, no column of the table holds a missing
\* value, whatever the column held before (also when all of it was missing).
C1_NoMissingAfterClean ==
  Returned("clean_data") =>
    \A c \in df[1].cols : NullCount(df[1], c) = 0

\* C2: after clean_data, in each of Unit and Sales that is not constant,
\* every value lies in [0, 1], the rows that held the column's minimum before
\* scaling hold exactly 0 and those that held its maximum hold exactly 1;
\* each column is scaled from its own values alone.
C2_ScaledIntoUnitRange ==
  Returned("clean_data") =>
    \A c \in NumericColumns :
      LET lo == NanMin(Imputed, c)
          hi == NanMax(Imputed, c)
      IN lo # hi =>
           \A i \in DOMAIN df[1].rows :
             LET v == df[1].rows[i][c] IN
               /\ FLeq(FZero, v) /\ FLeq(v, FOne)
               /\ Imputed.rows[i][c] = lo => v = FZero
               /\ Imputed.rows[i][c] = hi => v = FOne
               /\ v = ScaleColumn(Restrict(Imputed, {c}), c).rows[i][c]

\* the exact sum of the Sales of an aggregate
RECURSIVE AggregateTotal(_)
AggregateTotal(s) ==
  IF s = <<>> THEN FZero ELSE DAdd(s[1].Sales, AggregateTotal(Tail(s)))

C5_LoadFailureStopsRun ==
  fileState # "ok" =>
    /\ pc \in {"load", "load_failed", "done"}
    /\ raised = None
    /\ calls \in {<<>>, <<"load_data">>}
    /\ df = None /\ state_wise = None /\ group_wise = None /\ time_wise = None
    /\ figures = {} /\ report = None
    /\ pc = "load_failed" => ENABLED MainFailure
    /\ pc = "done" =>
         /\ calls = <<"load_data">>
         /\ stdout[Len(stdout)] = "Analysis stopped due to data loading error."

C5_Witness ==
  /\ fileState = "unparseable"
  /\ pc = "done"
  /\ stdout = <<"Error loading data", "Analysis stopped due to data loading error.">>

\* C6: a run ends either with all stages completed or aborted at the load
\* step; once load_data has succeeded no later stage aborts the run.
C6_OnlyLoadAborts ==
  /\ pc # "crashed"
  /\ pc = "done" => calls = Stages \/ (fileState # "ok" /\ calls = <<"load_data">>)

\* C7: without a Time column perform_analysis leaves time_wise unset,
\* create_visualizations writes the four other charts and not the
\* time-of-day chart, and the run goes on to generate_report and the success
\* message; with a Time column time_wise holds the mean Sales of each Time
\* value and all five charts are written.
C7_TimeColumnOptional ==
  df # None =>
    LET others == {Figures[1], Figures[2], Figures[3], Figures[5]} IN
    /\ "Time" \notin df[1].cols =>
         /\ time_wise = None
         /\ Returned("create_visualizations") => figures = others
         /\ pc # "crashed"
         /\ pc = "done" =>
              /\ report # None
              /\ stdout[Len(stdout)] = "Analysis completed successfully!"
    /\ "Time" \in df[1].cols =>
         /\ Returned("perform_analysis") =>
              /\ time_wise # None
              /\ \A k \in Unique(df[1], "Time") :
                   \E j \in DOMAIN time_wise[1] :
                     /\ time_wise[1][j].key = k
                     /\ time_wise[1][j].Sales.num =
                          SalesSum(df[1], GroupRows(df[1], "Time", k))
                     /\ time_wise[1][j].Sales.den =
                          Cardinality({i \in DOMAIN df[1].rows :
                             df[1].rows[i]["Time"] = k /\ ~df[1].rows[i]["Sales"].nan})
         /\ Returned("create_visualizations") =>
              figures = others \cup {Figures[4]}

\* C8: in a completed run every visualization the report lists is a chart
\* file that create_visualizations wrote in this run.
C8_ListedChartsWritten ==
  (pc = "done" /\ report # None) =>
    /\ Len(report[1].visualizations) = Len(Figures)
    /\ \A i \in DOMAIN report[1].visualizations : Figures[i] \in figures

\* C9: of the methods, only load_data and clean_data change the table:
\* check_missing_values, perform_analysis, create_visualizations and
\* generate_report leave it as it was, and perform_analysis changes nothing
\* of the object but state_wise, group_wise and time_wise.
C9_OnlyCleanerMutates ==
  [][/\ pc \in {"check", "analysis", "visualize", "report"} => df' = df
     /\ pc = "analysis" => figures' = figures /\ report' = report]_vars

\* the four read-only methods have run on a table with rows and missing cells
C9_Witness ==
  /\ pc = "finish"
  /\ Len(df[1].rows) = 3
  /\ \E c \in fileTable.cols : NullCount(fileTable, c) > 0
  /\ df[1] # fileTable

\* C10: in a run whose load succeeds the six stages run in their fixed
\* order, each exactly once, and the success message is printed only after
\* the report has been written.
C10_StagesOnceInOrder ==
  /\ Len(calls) <= Len(Stages)
  /\ \A i \in DOMAIN calls : calls[i] = Stages[i]
  /\ (\E i \in DOMAIN stdout : stdout[i] = "Analysis completed successfully!")
       => report # None
  /\ (RunEnded /\ fileState = "ok") =>
       /\ calls = Stages
       /\ stdout[Len(stdout)] = "Analysis completed successfully!"

(***************************************************************************)
(* The selection of the top and bottom States: the runs of main() on files *)
(* of up to MaxSelRows rows over four States.                              *)
(***************************************************************************)
MaxSelRows == 4

SelStates == {1, 2, 3, 4}

InitSelect ==
  /\ pc = "load"
  /\ \/ fileState \in {"absent", "unparseable"} /\ fileTable = EmptyTable
     \/ /\ fileState = "ok"
        /\ \E n \in 1..MaxSelRows :
             \E r \in [1..n -> Vary("State", SelStates, "Sales", {FromInt(1), FromInt(2)})] :
               fileTable = [cols |-> AllCols, rows |-> r]
  /\ df = None
  /\ state_wise = None
  /\ group_wise = None
  /\ time_wise = None
  /\ figures = {}
  /\ report = None
  /\ stdout = <<>>
  /\ printed = [top |-> None, bottom |-> None]
  /\ calls = <<>>
  /\ raised = None

SpecSelect == InitSelect /\ [][Next]_vars

Min(a, b) == IF a < b THEN a ELSE b

\* the position in aggregate s of its row with key k
PosOf(s, k) == CHOOSE p \in DOMAIN s : s[p].key = k

\* sel is the first n rows of s by decreasing Sales, rows of equal Sales in
\* the order they have in s
IsTopOf(sel, s, n) ==
  /\ Len(sel) = Min(n, Len(s))
  /\ \A j \in DOMAIN sel : \E p \in DOMAIN s : s[p] = sel[j]
  /\ \A j, k \in DOMAIN sel : j < k =>
       \/ FCmp(sel[j].Sales, sel[k].Sales) > 0
       \/ /\ FCmp(sel[j].Sales, sel[k].Sales) = 0
          /\ PosOf(s, sel[j].key) < PosOf(s, sel[k].key)
  /\ \A p \in DOMAIN s : (\A j \in DOMAIN sel : sel[j] # s[p]) =>
       \A j \in DOMAIN sel :
         \/ FCmp(sel[j].Sales, s[p].Sales) > 0
         \/ FCmp(sel[j].Sales, s[p].Sales) = 0 /\ PosOf(s, sel[j].key) < p

\* sel is the first n rows of s by increasing Sales, rows of equal Sales in
\* the order they have in s
IsBottomOf(sel, s, n) ==
  /\ Len(sel) = Min(n, Len(s))
  /\ \A j \in DOMAIN sel : \E p \in DOMAIN s : s[p] = sel[j]
  /\ \A j, k \in DOMAIN sel : j < k =>
       \/ FCmp(sel[j].Sales, sel[k].Sales) < 0
       \/ /\ FCmp(sel[j].Sales, sel[k].Sales) = 0
          /\ PosOf(s, sel[j].key) < PosOf(s, sel[k].key)
  /\ \A p \in DOMAIN s : (\A j \in DOMAIN sel : sel[j] # s[p]) =>
       \A j \in DOMAIN sel :
         \/ FCmp(sel[j].Sales, s[p].Sales) < 0
         \/ FCmp(sel[j].Sales, s[p].Sales) = 0 /\ PosOf(s, sel[j].key) < p

\* the sums A:100, B:50, C:200, D:10, E:75, the keys A..E as 1..5
ExampleSums ==
  <<[key |-> 1, Sales |-> FromInt(100)], [key |-> 2, Sales |-> FromInt(50)],
    [key |-> 3, Sales |-> FromInt(200)], [key |-> 4, Sales |-> FromInt(10)],
    [key |-> 5, Sales |-> FromInt(75)]>>

\* C4: the top-3 are the (up to) three States of largest summed Sales in
\* descending order, the bottom-3 the (up to) three of smallest summed Sales
\* in ascending order, of equal sums the State earlier in group order first;
\* for the sums A:100, B:50, C:200, D:10, E:75 the top-3 is C, A, E and the
\* bottom-3 is D, B, E; the report tables hold the selection that was
\* printed.
C4_TopBottomSelection ==
  /\ printed.top # None =>
       /\ IsTopOf(printed.top[1], state_wise[1], TopN)
       /\ IsBottomOf(printed.bottom[1], state_wise[1], TopN)
  /\ report # None =>
       /\ report[1].top = Keys(printed.top[1])
       /\ report[1].bottom = Keys(printed.bottom[1])
  /\ Keys(nlargest(ExampleSums, TopN)) = <<3, 1, 5>>
  /\ Keys(nsmallest(ExampleSums, TopN)) = <<4, 2, 5>>

\* four States, two of them with equal sums at the cut of the top-3, and
\* the report written
C4_Witness ==
  /\ report # None
  /\ Len(state_wise[1]) = 4
  /\ \E p, q \in DOMAIN state_wise[1] :
       /\ p < q
       /\ state_wise[1][p].Sales = state_wise[1][q].Sales
       /\ state_wise[1][p].key \in {report[1].top[j] : j \in DOMAIN report[1].top}
       /\ state_wise[1][q].key \notin {report[1].top[j] : j \in DOMAIN report[1].top}

====
